---------------------------- MODULE Spec2Model ----------------------------
(***************************************************************************)
(* A model of png_color_converter.py: the colour parser (parse_color) and  *)
(* the pixel recolour engine (convert_png_color) with its file handling.   *)
(*                                                                         *)
(* Colours are triples <<r, g, b>>, RGBA pixels are <<r, g, b, a>>, every  *)
(* channel an 8-bit value.  An image is a record [mode, width, height,     *)
(* pixels, palette, transparency] with the pixels in row-major order.  A   *)
(* tolerance is the number the caller passes, kept as the record [num,     *)
(* den, exp] of (num / den) / 2^exp, or the float inf or NaN.              *)
(***************************************************************************)
EXTENDS Integers, Sequences, FiniteSets, TLC

VARIABLES
    image,        \* engine: the decoded input image (any mode)
    source,       \* source_color
    target,       \* target_color
    tolerance,    \* tolerance, [num, den, exp]
    metric,       \* metric
    numpy_version,\* the major version of the NumPy the program runs on
    arr,          \* the RGBA buffer (after one conversion)
    arr2,         \* engine: the RGBA buffer after converting the output again
    phase,        \* engine: "loaded", "converted", "reconverted", or the error
    fs,           \* files: the file system, a function from the existing paths
    fs0,          \* files: the file system when the call started
    input_path,   \* files: input_path
    output_path,  \* files: the argument output_path, None or a path
    out_path,     \* files: output_path once the default is filled in
    open_files,   \* files: the set of <<path, "r" or "w">> handles now open
    log,          \* files: the file operations so far, in order
    pc,           \* files: the position in convert_png_color
    outcome,      \* files: what the call returned or raised
    color_str,    \* parser: the argument of parse_color
    parsed        \* parser: what parse_color returned or raised

engineVars == <<image, arr2, phase>>
argVars == <<source, target, tolerance, metric, numpy_version>>
fileVars == <<fs, fs0, input_path, output_path, out_path, open_files, log, pc, outcome>>
parseVars == <<color_str, parsed>>
vars == <<engineVars, argVars, arr, fileVars, parseVars>>

Null == "null"

(***************************************************************************)
(* Program constants.                                                      *)
(***************************************************************************)
DEFAULT_SOURCE == <<0, 0, 0>>
DEFAULT_TARGET == <<6, 145, 15>>

(***************************************************************************)
(* Bounds of the model.                                                    *)
(***************************************************************************)
MaxPixels == 2
MaxPathLen == 3
MaxTokens == 3

(***************************************************************************)
(* Multi-word naturals.  The float32 distances below carry 24 significant  *)
(* bits and their products do not fit a 32-bit integer of the model, so    *)
(* the comparisons are done on little-endian sequences of base 4096        *)
(* digits.                                                                 *)
(***************************************************************************)
RECURSIVE BigCarry(_, _, _)
BigCarry(x, i, carry) ==
    IF i > Len(x)
    THEN IF carry = 0 THEN <<>> ELSE <<carry % 4096>> \o BigCarry(x, i, carry \div 4096)
    ELSE <<(x[i] + carry) % 4096>> \o BigCarry(x, i + 1, (x[i] + carry) \div 4096)

BigNorm(x) == BigCarry(x, 1, 0)

BigOf(n) == BigNorm(<<n>>)

BigMulSmall(x, c) == BigNorm([i \in 1..Len(x) |-> x[i] * c])

\* the digit products x[i] * y[k + 1 - i] of the k-th column, summed
RECURSIVE BigColumn(_, _, _, _)
BigColumn(x, y, k, i) ==
    IF i > Len(x) \/ i > k THEN 0
    ELSE (IF k + 1 - i <= Len(y) THEN x[i] * y[k + 1 - i] ELSE 0) + BigColumn(x, y, k, i + 1)

BigMul(x, y) == BigNorm([k \in 1..(Len(x) + Len(y)) |-> BigColumn(x, y, k, 1)])

BigShiftDigits(x, q) == [i \in 1..q |-> 0] \o x

BigDigit(x, i) == IF i <= Len(x) THEN x[i] ELSE 0

BigAdd(x, y) ==
    BigNorm([i \in 1..(IF Len(x) > Len(y) THEN Len(x) ELSE Len(y)) |->
                BigDigit(x, i) + BigDigit(y, i)])

RECURSIVE BigLeqFrom(_, _, _)
BigLeqFrom(x, y, i) ==
    IF i = 0 THEN TRUE
    ELSE IF BigDigit(x, i) < BigDigit(y, i) THEN TRUE
    ELSE IF BigDigit(x, i) > BigDigit(y, i) THEN FALSE
    ELSE BigLeqFrom(x, y, i - 1)

BigLeq(x, y) == BigLeqFrom(x, y, IF Len(x) > Len(y) THEN Len(x) ELSE Len(y))

Abs(x) == IF x < 0 THEN -x ELSE x

RECURSIVE Pow4(_)
Pow4(k) == IF k = 0 THEN 1 ELSE 4 * Pow4(k - 1)

Pow2(k) == IF k % 2 = 0 THEN Pow4(k \div 2) ELSE 2 * Pow4(k \div 2)

\* x * 2^n
BigShiftBits(x, n) == BigShiftDigits(BigMulSmall(x, Pow2(n % 12)), n \div 12)

\* x * 2^n for n > 0, and x otherwise: the two sides of a comparison are
\* brought to the same scale by shifting one of them
BigShiftUp(x, n) == IF n > 0 THEN BigShiftBits(x, n) ELSE x

(***************************************************************************)
(* float32 square root of a natural n < 2^24 (np.linalg.norm on a float32  *)
(* array: the squares and their sum are exact, the square root is rounded  *)
(* to nearest).  The result is the value m / 2^s, m a 24-bit significand.  *)
(***************************************************************************)
RECURSIVE Binade(_, _)
Binade(n, e) == IF n < Pow4(e + 1) THEN e ELSE Binade(n, e + 1)

\* The square root digit by digit: the k low base-4 digits of n are brought
\* down first, then s zero digits.  The result is [root, rem] with
\* root = floor(sqrt(n * 4^s)) and rem = n * 4^s - root^2.
RECURSIVE SqrtDigits(_, _, _, _, _)
SqrtDigits(root, rem, n, k, s) ==
    IF k = 0 /\ s = 0 THEN [root |-> root, rem |-> rem]
    ELSE LET r == 4 * rem + (IF k > 0 THEN (n \div Pow4(k - 1)) % 4 ELSE 0)
             k1 == IF k > 0 THEN k - 1 ELSE 0
             s1 == IF k > 0 THEN s ELSE s - 1
         IN  IF r >= 4 * root + 1
             THEN SqrtDigits(2 * root + 1, r - (4 * root + 1), n, k1, s1)
             ELSE SqrtDigits(2 * root, r, n, k1, s1)

F32SqrtUp(n) ==
    IF n = 0 THEN [m |-> 0, s |-> 0]
    ELSE LET e == Binade(n, 0)
             d == SqrtDigits(0, 0, n, e + 1, 23 - e)
         IN  [m |-> IF d.rem > 0 THEN d.root + 1 ELSE d.root, s |-> 23 - e]

F32Sqrt(n) ==
    IF n = 0 THEN [m |-> 0, s |-> 0]
    ELSE LET e == Binade(n, 0)
             d == SqrtDigits(0, 0, n, e + 1, 23 - e)
         IN  [m |-> IF d.rem > d.root THEN d.root + 1 ELSE d.root, s |-> 23 - e]

(***************************************************************************)
(* Floats.  A float64 is the record [kind, sign, hi, lo, s].  A finite one *)
(* has sign -1, 0 or 1 and the magnitude (hi * 2^27 + lo) / 2^s: the       *)
(* significand of 53 bits, or of fewer bits with s = 1074 for a subnormal, *)
(* cut into its high bits hi and its 27 low bits lo.  A float32 is the     *)
(* record [kind, sign, m, s] of magnitude m / 2^s, m its significand: 24   *)
(* bits, or fewer with s = 149 for a subnormal.  Sign 0 is a zero; 0.0 and *)
(* -0.0 compare equal and are not told apart.  The other kinds are the     *)
(* infinities, of sign -1 or 1, and the NaN.  Every rounding is to         *)
(* nearest, ties to the even significand.                                  *)
(***************************************************************************)
F64(sign, hi, lo, s) == [kind |-> "finite", sign |-> sign, hi |-> hi, lo |-> lo, s |-> s]

F64Zero == F64(0, 0, 0, 0)

F64Inf(sign) == [kind |-> "inf", sign |-> sign, hi |-> 0, lo |-> 0, s |-> 0]

F64NaN == [kind |-> "nan", sign |-> 0, hi |-> 0, lo |-> 0, s |-> 0]

\* float(tolerance) raises OverflowError.  An operator that models lines the
\* exception passes through has the exception as its value.
OverflowError == [kind |-> "OverflowError", sign |-> 0, hi |-> 0, lo |-> 0, s |-> 0]

F32(sign, m, s) == [kind |-> "finite", sign |-> sign, m |-> m, s |-> s]

F32Zero == F32(0, 0, 0)

F32Inf(sign) == [kind |-> "inf", sign |-> sign, m |-> 0, s |-> 0]

F32NaN == [kind |-> "nan", sign |-> 0, m |-> 0, s |-> 0]

Min(a, b) == IF a < b THEN a ELSE b

\* the float64 after the positive float64 [hi, lo, s] (rounding up)
F64Next(hi, lo, s) ==
    IF lo + 1 < 134217728 THEN F64(1, hi, lo + 1, s)
    ELSE IF hi + 1 < 67108864 THEN F64(1, hi + 1, 0, s)
    ELSE F64(1, 33554432, 0, s - 1)

\* A positive result f: one rounded down to nothing is a zero, and one
\* rounded up to 2^1024 or more is an infinity.
F64Finish(f) ==
    IF f.hi = 0 /\ f.lo = 0 THEN F64Zero
    ELSE IF f.s < -971 THEN F64Inf(1)
    ELSE f

\* f, positive, with the sign given
F64Signed(sign, f) == IF f.sign = 0 THEN f ELSE [f EXCEPT !.sign = sign]

\* the number of bits of n, 0 < n < 2^31
BitLen(n) == CHOOSE k \in 1..31 : n >= Pow2(k - 1) /\ (k = 31 \/ n < Pow2(k))

\* Long division of num by den, n bits of the quotient at a time.  r is the
\* remainder so far; the bits of num not yet brought down are those of rest,
\* the next one of weight w (none when w is 0).  With b the bit brought
\* down, the bit of the quotient is 1 when 2r + b >= den, which is tested
\* without forming 2r.
RECURSIVE F64Bits(_, _, _, _, _, _)
F64Bits(den, w, rest, r, q, n) ==
    IF n = 0 THEN [q |-> q, r |-> r, w |-> w, rest |-> rest]
    ELSE LET b == IF w > 0 /\ rest >= w THEN 1 ELSE 0
         IN  IF r >= den - r - b
             THEN F64Bits(den, w \div 2, rest - b * w, r - (den - r - b), 2 * q + 1, n - 1)
             ELSE F64Bits(den, w \div 2, rest - b * w, r + r + b, 2 * q, n - 1)

\* the next n bits after those of the division state c
F64More(den, c, n) == F64Bits(den, c.w, c.rest, c.r, c.q, n)

\* the next n bits, n <= 27, in two steps
F64Take(den, c, n) == F64More(den, F64More(den, c, Min(n, 13)), n - Min(n, 13))

\* The exponent e of num / den, 0 < num, den < 2^31: the quotient lies in
\* [2^e, 2^(e+1)).
F64Exponent(num, den) ==
    IF num >= den THEN BitLen(num \div den) - 1
    ELSE IF num * Pow2(BitLen(den) - BitLen(num)) >= den
         THEN BitLen(num) - BitLen(den)
         ELSE BitLen(num) - BitLen(den) - 1

\* the division just before the bit of weight 2^e of the quotient
F64Start(num, e) ==
    IF e >= 0
    THEN [q |-> 0, r |-> (num \div Pow2(e)) \div 2, w |-> Pow2(e),
          rest |-> num - 2 * (((num \div Pow2(e)) \div 2) * Pow2(e))]
    ELSE [q |-> 0, r |-> num * Pow2(0 - e - 1), w |-> 0, rest |-> 0]

\* The significand from its high bits a.q and the division b after its low
\* bits.  What is left of the quotient, the bits of num not brought down
\* included, is above one half of the last bit, or is one half of it and the
\* significand is odd: then the float64 is the next one.
F64Round(den, s, a, b) ==
    LET c == IF b.w > 0 /\ b.rest >= b.w THEN 1 ELSE 0
    IN  IF \/ b.r > den - b.r - c
           \/ /\ b.r = den - b.r - c
              /\ (b.rest - c * b.w > 0 \/ b.q % 2 = 1)
        THEN F64Next(a.q, b.q, s)
        ELSE F64(1, a.q, b.q, s)

\* the low bits, 27 of the n kept, after the division a of the high bits
F64Low(den, s, n, a) ==
    F64Round(den, s, a, F64Take(den, [a EXCEPT !.q = 0], Min(n, 27)))

\* the n bits kept of the significand, from the first bit of the quotient on
\* (the one of weight 2^e)
F64High(num, den, e, s, n) ==
    F64Low(den, s, n, F64Take(den, F64Start(num, e), IF n > 27 THEN n - 27 ELSE 0))

\* The float64 of the positive number (num / den) / 2^exp, which lies in
\* [2^x, 2^(x+1)), num / den lying in [2^e, 2^(e+1)).  From 2^-1022 on the
\* float64 keep 53 bits; below, they are the multiples of 2^-1074, and keep
\* the bits down to that one.
F64At(num, den, e, x) ==
    IF x > 1023 THEN F64Inf(1)
    ELSE IF x < -1075 THEN F64Zero
    ELSE IF x >= -1022 THEN F64Finish(F64High(num, den, e, 52 - x, 53))
    ELSE F64Finish(F64High(num, den, e, 1074, x + 1075))

\* float of (num / den) / 2^exp for 0 < num, den < 2^31
F64Ratio(num, den, exp) == F64At(num, den, F64Exponent(num, den), F64Exponent(num, den) - exp)

\* the significand of a finite float64 as a multi-word natural
F64Significand(t) == BigAdd(BigShiftBits(BigOf(t.hi), 27), BigOf(t.lo))

\* the number of bits of the multi-word natural x > 0
BigBitLen(x) ==
    LET top == CHOOSE i \in 1..Len(x) : x[i] > 0 /\ \A j \in (i + 1)..Len(x) : x[j] = 0
    IN  12 * (top - 1) + BitLen(x[top])

\* The positive float64 nearest to p / 2^s, p a multi-word natural of at
\* most 61 bits: the bits of p beyond 53 are rounded away.
F64OfBig(p, s) ==
    LET len == BigBitLen(p)
        d == IF len > 53 THEN len - 53 ELSE 0
        rest == p[1] % Pow2(d)
        y == [i \in 1..5 |->
                 (BigDigit(p, i) \div Pow2(d)) + (BigDigit(p, i + 1) % Pow2(d)) * Pow2(12 - d)]
        lo == y[1] + 4096 * y[2] + 16777216 * (y[3] % 8)
        hi == (y[3] \div 8) + 512 * y[4] + 2097152 * y[5]
        up == d > 0 /\ (rest > Pow2(d - 1) \/ (rest = Pow2(d - 1) /\ lo % 2 = 1))
    IN  IF up THEN F64Next(hi, lo, s - d)
        ELSE F64(1, hi, lo, s - d)

\* t * 255.0 in float64
F64Times255(t) ==
    IF t.kind # "finite" \/ t.sign = 0 THEN t
    ELSE F64Signed(t.sign, F64Finish(F64OfBig(BigMulSmall(F64Significand(t), 255), t.s)))

\* A float32 of 2^128 or more is an infinity.
F32Finish(f) == IF f.s < -104 THEN F32Inf(f.sign) ELSE f

\* The cast of a float64 to float32.  The low k bits of the significand are
\* rounded away: 29 of them for a normal float32, more below 2^-126, where
\* the float32 are the multiples of 2^-149; a magnitude under 2^-150 becomes
\* a zero.
F32Of64(t) ==
    IF t.kind = "OverflowError" THEN t
    ELSE IF t.kind = "nan" THEN F32NaN
    ELSE IF t.kind = "inf" THEN F32Inf(t.sign)
    ELSE IF t.sign = 0 THEN F32Zero
    ELSE LET k == IF t.s <= 178 THEN 29 ELSE t.s - 149
         IN  IF k >= 54 THEN F32Zero
             ELSE LET q == t.hi \div Pow2(k - 27)
                      rest == t.hi % Pow2(k - 27)
                      half == Pow2(k - 28)
                      up == \/ rest > half
                            \/ rest = half /\ (t.lo > 0 \/ q % 2 = 1)
                      m == IF up THEN q + 1 ELSE q
                  IN  IF m = 0 THEN F32Zero
                      ELSE IF m = 16777216 THEN F32Finish(F32(t.sign, 8388608, t.s - k - 1))
                      ELSE F32Finish(F32(t.sign, m, t.s - k))

\* float(tolerance) raises OverflowError for a number, an int or a Fraction,
\* that rounds to 2^1024 or more; only one of 2^1023 or more can.  A float
\* is never such a number.
Overflows(tol) ==
    /\ tol.den > 0
    /\ tol.num # 0
    /\ F64Exponent(Abs(tol.num), tol.den) - tol.exp >= 1023
    /\ F64Ratio(Abs(tol.num), tol.den, tol.exp).kind = "inf"

\* float(tolerance).  The tolerance is the number (num / den) / 2^exp, an
\* int, a Fraction or a float, or, with den = 0, a float that is no number:
\* an infinity of the sign of num, or the NaN with num = 0.  float returns a
\* float as it is.
Float64(tol) ==
    IF tol.den = 0
    THEN IF tol.num = 0 THEN F64NaN ELSE F64Inf(IF tol.num < 0 THEN -1 ELSE 1)
    ELSE IF tol.num = 0 THEN F64Zero
    ELSE IF Overflows(tol) THEN OverflowError
    ELSE F64Signed(IF tol.num < 0 THEN -1 ELSE 1, F64Ratio(Abs(tol.num), tol.den, tol.exp))

(***************************************************************************)
(* The two metrics.                                                        *)
(***************************************************************************)
Diff(px, src) == <<px[1] - src[1], px[2] - src[2], px[3] - src[3]>>

SumSq(d) == d[1] * d[1] + d[2] * d[2] + d[3] * d[3]

\* max_dist = np.sqrt(3.0) * 255.0, a float64: 7769992811508829 / 2^44
MaxDist64 == [m |-> <<1117, 1791, 1133, 2476, 27>>, s |-> 44]

\* and max_dist cast to float32: 14472739 / 2^15
MaxDist32 == [m |-> 14472739, s |-> 15]

\* The scalar the mask is compared with, computed once for the array:
\* float(tolerance) for the euclidean metric, a float64 under NumPy 2 and
\* cast to the float32 of the array under NumPy 1; thr = float(tolerance) *
\* 255.0 for the channel metric, cast to float32 under both.
Threshold(tol, m, np) ==
    IF m = "euclidean"
    THEN IF np = 1 THEN F32Of64(Float64(tol)) ELSE Float64(tol)
    ELSE F32Of64(F64Times255(Float64(tol)))

\* NumPy 2: norm = dist / max_dist is a float64 division of the float32 norm
\* dist = m / 2^s by the float64 max_dist = M / 2^44, and norm <= t is a
\* float64 comparison with t = T / 2^k.  The rounded quotient is at most t
\* when the exact quotient is below the midpoint (2T + 1) / 2^(k+1) of t and
\* the next float64, or is that midpoint and T is even:
\* m * 2^(44 + k + 1) against (2T + 1) * M * 2^s.  Nothing is at most a NaN
\* or a negative number, and every norm is at most the infinity.
Norm64Leq(dist, t) ==
    IF t.kind = "nan" \/ t.sign < 0 THEN FALSE
    ELSE IF t.kind = "inf" THEN TRUE
    ELSE IF t.sign = 0 THEN dist.m = 0
    ELSE LET mid == BigAdd(BigMulSmall(F64Significand(t), 2), <<1>>)
             lhs == BigShiftUp(BigOf(dist.m), MaxDist64.s + t.s + 1 - dist.s)
             rhs == BigShiftUp(BigMul(mid, MaxDist64.m), dist.s - MaxDist64.s - t.s - 1)
         IN  IF t.lo % 2 = 0 THEN BigLeq(lhs, rhs) ELSE ~BigLeq(rhs, lhs)

\* NumPy 1: the same in float32, the division being by the float32 max_dist
\* and t = T / 2^k the float32 tolerance:
\* m * 2^(15 + k + 1) against (2T + 1) * 14472739 * 2^s.
Norm32Leq(dist, t) ==
    IF t.kind = "nan" \/ t.sign < 0 THEN FALSE
    ELSE IF t.kind = "inf" THEN TRUE
    ELSE IF t.sign = 0 THEN dist.m = 0
    ELSE LET lhs == BigShiftUp(BigOf(dist.m), MaxDist32.s + t.s + 1 - dist.s)
             rhs == BigShiftUp(BigMul(BigOf(2 * t.m + 1), BigOf(MaxDist32.m)),
                               dist.s - MaxDist32.s - t.s - 1)
         IN  IF t.m % 2 = 0 THEN BigLeq(lhs, rhs) ELSE ~BigLeq(rhs, lhs)

\* np.all(np.abs(diff) <= thr, axis=-1), thr the float32 m / 2^s: a whole
\* number is at most thr when it is at most the whole part of thr
ChannelLeq(d, thr) ==
    IF thr.kind = "nan" \/ thr.sign < 0 THEN FALSE
    ELSE IF thr.kind = "inf" THEN TRUE
    ELSE IF thr.sign = 0 THEN \A c \in 1..3 : d[c] = 0
    ELSE IF thr.s < 0 THEN TRUE
    ELSE LET floor == IF thr.s > 23 THEN 0 ELSE thr.m \div Pow2(thr.s)
         IN  \A c \in 1..3 : Abs(d[c]) <= floor

\* the comparisons of CloseTo the other way round
FarFrom(d, thr, m, np) ==
    IF m = "euclidean"
    THEN IF np = 1 THEN ~Norm32Leq(F32Sqrt(SumSq(d)), thr)
         ELSE ~Norm64Leq(F32Sqrt(SumSq(d)), thr)
    ELSE ~ChannelLeq(d, thr)

\* one element of the mask: the difference d against the scalar thr.
\* euclidean: dist = np.linalg.norm(diff, axis=-1); norm = dist / max_dist;
\* norm <= float(tolerance)
CloseTo(d, thr, m, np) ==
    IF thr.kind = "OverflowError" THEN thr
    ELSE IF m = "euclidean"
    THEN IF np = 1 THEN Norm32Leq(F32Sqrt(SumSq(d)), thr)
         ELSE Norm64Leq(F32Sqrt(SumSq(d)), thr)
    ELSE ChannelLeq(d, thr)

EuclideanClose(d, tol, np) == CloseTo(d, Threshold(tol, "euclidean", np), "euclidean", np)

ChannelClose(d, tol) == CloseTo(d, Threshold(tol, "channel", 1), "channel", 1)

Close(px, src, tol, m, np) == CloseTo(Diff(px, src), Threshold(tol, m, np), m, np)


(***************************************************************************)
(* Loading: Image.open followed by the conversion of every mode other than *)
(* RGBA to RGBA, and np.array.  The modes are those of a PNG of 8 bits or  *)
(* fewer per channel.  A pixel is <<r, g, b, a>> in mode RGBA, <<r, g, b>> *)
(* in RGB, <<l>> in L and 1 (a bit of mode 1 is the grey 0 or 255),        *)
(* <<l, a>> in LA, and the index <<i>>, from 0, of an entry of the palette *)
(* in P.  transparency is im.info["transparency"], <<>> when the file has  *)
(* none.  For RGB, L and 1 it is <<px>>, the one pixel value that is       *)
(* transparent.  For P it is <<alphas>>, the alphas of the first entries   *)
(* of the palette; the index Pillow keeps when one entry has alpha 0 and   *)
(* the others 255 is those alphas.                                         *)
(***************************************************************************)
NoTransparency == <<>>

Transparency(t) == <<t>>

\* the alpha of entry i of the palette: the entries beyond the alphas given
\* are opaque
PaletteAlpha(im, i) ==
    IF im.transparency # NoTransparency /\ i < Len(im.transparency[1])
    THEN im.transparency[1][i + 1]
    ELSE 255

\* im.convert("RGBA") on one pixel.  A pixel of the transparent colour
\* keeps its colour and gets alpha 0.
ToRGBA(im, px) ==
    IF im.mode = "RGBA" THEN px
    ELSE IF im.mode = "RGB"
    THEN <<px[1], px[2], px[3], IF im.transparency = Transparency(px) THEN 0 ELSE 255>>
    ELSE IF im.mode = "LA" THEN <<px[1], px[1], px[1], px[2]>>
    ELSE IF im.mode = "P"
    THEN <<im.palette[px[1] + 1][1], im.palette[px[1] + 1][2], im.palette[px[1] + 1][3],
           PaletteAlpha(im, px[1])>>
    ELSE <<px[1], px[1], px[1], IF im.transparency = Transparency(px) THEN 0 ELSE 255>>

Load(im) ==
    [mode |-> "RGBA", width |-> im.width, height |-> im.height,
     pixels |-> [i \in 1..Len(im.pixels) |-> ToRGBA(im, im.pixels[i])]]

(***************************************************************************)
(* The mask and the masked assignment arr[mask, :3] = target_color.        *)
(***************************************************************************)
MaskNoAlpha(a, src, tol, m, np) ==
    LET thr == Threshold(tol, m, np)
    IN  [i \in 1..Len(a.pixels) |-> CloseTo(Diff(a.pixels[i], src), thr, m, np)]

Mask(a, src, tol, m, np) ==
    LET thr == Threshold(tol, m, np)
    IN  IF thr.kind = "OverflowError" THEN thr
        ELSE [i \in 1..Len(a.pixels) |->
                 CloseTo(Diff(a.pixels[i], src), thr, m, np) /\ a.pixels[i][4] > 0]

PaintBlend(px, tgt) ==
    <<(px[1] + tgt[1]) \div 2, (px[2] + tgt[2]) \div 2, (px[3] + tgt[3]) \div 2, px[4]>>

PaintBGR(px, tgt) == <<tgt[3], tgt[2], tgt[1], px[4]>>

Paint(px, tgt) == <<tgt[1], tgt[2], tgt[3], px[4]>>

Recolor(a, src, tgt, tol, m, np) ==
    LET mask == Mask(a, src, tol, m, np)
    IN  IF Overflows(tol) THEN OverflowError
        ELSE [a EXCEPT !.pixels =
                 [i \in 1..Len(a.pixels) |->
                     IF mask[i] THEN Paint(a.pixels[i], tgt) ELSE a.pixels[i]]]

Metrics == {"euclidean", "channel"}

(***************************************************************************)
(* The inputs of the engine.                                               *)
(***************************************************************************)
\* A tolerance is the number (num / den) / 2^exp, den > 0, or a float that
\* is no number: inf, or the NaN.
Tol(n, d) == [num |-> n, den |-> d, exp |-> 0]

TolScaled(n, d, e) == [num |-> n, den |-> d, exp |-> e]

TolNaN == [num |-> 0, den |-> 0, exp |-> 0]

TolInf == [num |-> 1, den |-> 0, exp |-> 0]

\* -0.1, -2^-200 (a float64, but nearer to zero than any float32), -2^-1100
\* (nearer to zero than any float64: float gives -0.0), 0, 200000/51000001
\* (a little under 1/255), 0.2, 0.3, 0.6, 1.0, 1.5, the number 2^1100 (beyond
\* the float64: float raises OverflowError), inf and the NaN
Tolerances ==
    {Tol(-1, 10), TolScaled(-1, 1, 200), TolScaled(-1, 1, 1100), Tol(0, 1),
     Tol(200000, 51000001), Tol(1, 5), Tol(3, 10), Tol(3, 5), Tol(1, 1), Tol(3, 2),
     TolScaled(1, 1, -1100), TolInf, TolNaN}

\* |t1| < |t2|, for two numbers
TolSmaller(t1, t2) ==
    LET x == BigShiftUp(BigMul(BigOf(Abs(t1.num)), BigOf(t2.den)), t2.exp - t1.exp)
        y == BigShiftUp(BigMul(BigOf(Abs(t2.num)), BigOf(t1.den)), t1.exp - t2.exp)
    IN  ~BigLeq(y, x)

\* t1 < t2; the NaN is not less than anything, and nothing is less than it
TolLess(t1, t2) ==
    IF (t1.den = 0 /\ t1.num = 0) \/ (t2.den = 0 /\ t2.num = 0) THEN FALSE
    ELSE IF t1.den = 0 THEN t1.num < 0 /\ (t2.den > 0 \/ t2.num > 0)
    ELSE IF t2.den = 0 THEN t2.num > 0
    ELSE IF t1.num < 0 THEN t2.num >= 0 \/ TolSmaller(t2, t1)
    ELSE t2.num > 0 /\ TolSmaller(t1, t2)

\* the builds of the program: NumPy 1.x, or NumPy 2.x with the promotion
\* rules of NEP 50
NumpyVersions == {1, 2}

Sources == {DEFAULT_SOURCE, <<51, 51, 51>>}

Targets == {DEFAULT_TARGET, <<0, 0, 0>>}

MetricArgs == Metrics \cup {"manhattan"}

PaletteRGBA ==
    {<<0, 0, 0, 255>>, <<0, 0, 0, 0>>, <<255, 255, 255, 255>>, <<51, 51, 51, 255>>,
     <<1, 0, 0, 128>>}

PaletteRGB == {<<0, 0, 0>>, <<255, 255, 255>>}

PaletteL == {<<0>>, <<255>>}

\* black transparent and opaque, and the grey 153 opaque
PaletteLA == {<<0, 0>>, <<0, 255>>, <<153, 255>>}

\* the palette of the P images, and the entries their pixels use
PaletteP == <<(<<0, 0, 0>>), (<<255, 255, 255>>), (<<51, 51, 51>>)>>

IndicesP == {<<0>>, <<2>>}

\* A kind of image: a mode, with its palette, its transparency and the
\* values its pixels take.  RGB and L come without and with black as the
\* transparent colour; P without alphas and with the alpha 0 for entry 0
\* alone, entry 2 being beyond the alphas given.
Kind(mode, palette, transparency, values) ==
    [mode |-> mode, palette |-> palette, transparency |-> transparency, values |-> values]

ImageKinds ==
    {Kind("RGBA", <<>>, NoTransparency, PaletteRGBA),
     Kind("RGB", <<>>, NoTransparency, PaletteRGB),
     Kind("RGB", <<>>, Transparency(<<0, 0, 0>>), PaletteRGB),
     Kind("L", <<>>, NoTransparency, PaletteL),
     Kind("L", <<>>, Transparency(<<0>>), PaletteL),
     Kind("LA", <<>>, NoTransparency, PaletteLA),
     Kind("P", PaletteP, NoTransparency, IndicesP),
     Kind("P", PaletteP, Transparency(<<0>>), IndicesP)}

\* <<width, height>>.  The code treats the pixels alike wherever they lie,
\* so the images are the ones at least as wide as tall.
Shapes ==
    {wh \in (1..MaxPixels) \X (1..MaxPixels) : wh[1] * wh[2] <= MaxPixels /\ wh[1] >= wh[2]}

ScenarioImage ==
    [mode |-> "RGBA", width |-> 2, height |-> 2,
     pixels |-> <<(<<0, 0, 0, 255>>), (<<255, 255, 255, 255>>),
                  (<<0, 0, 0, 0>>), (<<6, 145, 15, 255>>)>>,
     palette |-> <<>>, transparency |-> NoTransparency]

Images ==
    {ScenarioImage} \cup
    UNION {UNION {{[mode |-> k.mode, width |-> wh[1], height |-> wh[2], pixels |-> ps,
                    palette |-> k.palette, transparency |-> k.transparency] :
                      ps \in [1..(wh[1] * wh[2]) -> k.values]} :
                  wh \in Shapes} :
           k \in ImageKinds}

(***************************************************************************)
(* The engine as a state machine: one conversion of an in-memory image,    *)
(* then a second conversion of its output with the same arguments.         *)
(***************************************************************************)
Init ==
    /\ fs = Null /\ fs0 = Null /\ input_path = Null /\ output_path = Null
    /\ out_path = Null
    /\ open_files = Null /\ log = Null /\ pc = Null /\ outcome = Null
    /\ color_str = Null /\ parsed = Null
    /\ image \in Images
    /\ source \in Sources
    /\ target \in Targets
    /\ tolerance \in Tolerances
    /\ metric \in MetricArgs
    /\ numpy_version \in NumpyVersions
    /\ arr = Null
    /\ arr2 = Null
    /\ phase = "loaded"

Convert ==
    /\ phase = "loaded"
    /\ IF metric \notin Metrics
       THEN /\ arr' = Null
            /\ phase' = "ValueError"
       ELSE IF Overflows(tolerance)
       THEN /\ arr' = Null
            /\ phase' = "OverflowError"
       ELSE /\ arr' = Recolor(Load(image), source, target, tolerance, metric, numpy_version)
            /\ phase' = "converted"
    /\ UNCHANGED <<image, argVars, arr2, fileVars, parseVars>>

Reconvert ==
    /\ phase = "converted"
    /\ arr2' = Recolor(Load(arr), source, target, tolerance, metric, numpy_version)
    /\ phase' = "reconverted"
    /\ UNCHANGED <<image, argVars, arr, fileVars, parseVars>>

Next == Convert \/ Reconvert

Spec == Init /\ [][Next]_vars


(***************************************************************************)
(* Paths.  A path is a sequence whose elements are "/", "." or a run of    *)
(* other characters.  os.path.splitext splits at the last dot of the last  *)
(* component, leading dots of that component not counted.                  *)
(***************************************************************************)
\* The argument output_path is optional: None when no path is given, and
\* Some(p) when the path p is given.  The empty string '' is the path <<>>,
\* so output_path='' is Some(<<>>), which is not None.
None == <<>>

Some(p) == <<p>>

\* the path of an output_path that is not None
Given(opt) == opt[1]

LastIndexOf(p, c) ==
    IF \E i \in 1..Len(p) : p[i] = c
    THEN CHOOSE i \in 1..Len(p) : p[i] = c /\ \A j \in (i + 1)..Len(p) : p[j] # c
    ELSE 0

SplitExtLastDot(p) ==
    LET dot == LastIndexOf(p, ".")
    IN  IF dot > 0
        THEN [root |-> SubSeq(p, 1, dot - 1), ext |-> SubSeq(p, dot, Len(p))]
        ELSE [root |-> p, ext |-> <<>>]

SplitExt(p) ==
    LET sep == LastIndexOf(p, "/")
        dot == LastIndexOf(p, ".")
    IN  IF dot > sep /\ \E k \in (sep + 1)..(dot - 1) : p[k] # "."
        THEN [root |-> SubSeq(p, 1, dot - 1), ext |-> SubSeq(p, dot, Len(p))]
        ELSE [root |-> p, ext |-> <<>>]

DefaultOutput(p) == SplitExt(p).root \o <<"_converted", ".", "png">>

IsFile(fsys, p) == p \in DOMAIN fsys

AnyMetric(m) == TRUE

ValidMetric(m) == m \in Metrics

LeftOpen(handles, p) == handles

Closed(handles, p) == handles \ {<<p, "r">>}

WriteFile(fsys, p, content) ==
    [q \in DOMAIN fsys \cup {p} |-> IF q = p THEN content ELSE fsys[q]]

(***************************************************************************)
(* The inputs of a call of convert_png_color on files.                     *)
(***************************************************************************)
PathChars == {"a", ".", "/", "png"}

IsFilePath(p) ==
    \E k \in 1..Len(p) :
        /\ p[k] \notin {".", "/"}
        /\ \A j \in k..Len(p) : p[j] # "/"

Paths == {p \in UNION {[1..n -> PathChars] : n \in 1..MaxPathLen} : IsFilePath(p)}

OtherOutput == <<"o", ".", "png">>

Pixel1x1(mode, px) ==
    [mode |-> mode, width |-> 1, height |-> 1, pixels |-> <<px>>,
     palette |-> <<>>, transparency |-> NoTransparency]

FileImages == {Pixel1x1("RGBA", <<0, 0, 0, 255>>), Pixel1x1("RGB", <<0, 0, 0>>)}

OldOutput == Pixel1x1("RGBA", <<255, 255, 255, 255>>)

\* a file opened for writing and not yet written
Truncated == [mode |-> "empty", width |-> 0, height |-> 0, pixels |-> <<>>]

InitialFiles(inp, out) ==
    {f \in UNION {[d -> FileImages \cup {OldOutput}] : d \in SUBSET ({inp, out} \ {<<>>})} :
        /\ inp \in DOMAIN f => f[inp] \in FileImages
        /\ (out \in DOMAIN f /\ out # inp) => f[out] = OldOutput}

(***************************************************************************)
(* convert_png_color, statement by statement.                              *)
(***************************************************************************)
InitFiles ==
    /\ image = Null /\ arr2 = Null /\ phase = Null
    /\ color_str = Null /\ parsed = Null
    /\ source = DEFAULT_SOURCE
    /\ target = DEFAULT_TARGET
    /\ tolerance \in {Tol(3, 10), TolScaled(1, 1, -1100)}
    /\ metric \in MetricArgs
    /\ numpy_version \in NumpyVersions
    /\ input_path \in Paths
    /\ output_path \in {None, Some(<<>>), Some(input_path), Some(OtherOutput)}
    /\ fs \in InitialFiles(input_path,
                           IF output_path = None THEN DefaultOutput(input_path)
                           ELSE Given(output_path))
    /\ fs0 = fs
    /\ out_path = output_path
    /\ arr = Null
    /\ open_files = {}
    /\ log = <<>>
    /\ pc = "isfile"
    /\ outcome = Null

Raise(e) ==
    /\ pc' = "raised"
    /\ outcome' = [kind |-> "raise", value |-> e]

\* if not os.path.isfile(input_path): raise FileNotFoundError
CheckInput ==
    /\ pc = "isfile"
    /\ IF IsFile(fs, input_path)
       THEN pc' = "default" /\ UNCHANGED outcome
       ELSE Raise("FileNotFoundError")
    /\ UNCHANGED <<engineVars, argVars, arr, parseVars, fs, fs0, input_path,
                   output_path, out_path, open_files, log>>

\* if output_path is None: output_path = f"{base}_converted.png"
ResolveOutput ==
    /\ pc = "default"
    /\ out_path' = IF output_path = None THEN DefaultOutput(input_path)
                   ELSE Given(output_path)
    /\ pc' = "open"
    /\ UNCHANGED <<engineVars, argVars, arr, parseVars, fs, fs0, input_path,
                   output_path, open_files, log, outcome>>

\* with Image.open(input_path) as im:
OpenInput ==
    /\ pc = "open"
    /\ log' = Append(log, <<"open", input_path, "r">>)
    /\ IF input_path \in DOMAIN fs
       THEN /\ open_files' = open_files \cup {<<input_path, "r">>}
            /\ pc' = "decode"
            /\ UNCHANGED outcome
       ELSE /\ Raise("FileNotFoundError")
            /\ UNCHANGED open_files
    /\ UNCHANGED <<engineVars, argVars, arr, parseVars, fs, fs0, input_path,
                   output_path, out_path>>

\* im.convert("RGBA") unless the mode is RGBA; arr = np.array(im)
DecodeInput ==
    /\ pc = "decode"
    /\ <<input_path, "r">> \in open_files
    /\ arr' = Load(fs[input_path])
    /\ log' = Append(log, <<"read", input_path, "r">>)
    /\ pc' = "close"
    /\ UNCHANGED <<engineVars, argVars, parseVars, fs, fs0, input_path,
                   output_path, out_path, open_files, outcome>>

\* the end of the with block
CloseInput ==
    /\ pc = "close"
    /\ open_files' = Closed(open_files, input_path)
    /\ log' = Append(log, <<"close", input_path, "r">>)
    /\ pc' = "recolor"
    /\ UNCHANGED <<engineVars, argVars, arr, parseVars, fs, fs0, input_path,
                   output_path, out_path, outcome>>

\* the mask under the metric, or ValueError, or the OverflowError of
\* float(tolerance); arr[mask, :3] = target_color
RecolorBuffer ==
    /\ pc = "recolor"
    /\ IF ~ValidMetric(metric)
       THEN /\ Raise("ValueError")
            /\ UNCHANGED arr
       ELSE IF Overflows(tolerance)
       THEN /\ Raise("OverflowError")
            /\ UNCHANGED arr
       ELSE /\ arr' = Recolor(arr, source, target, tolerance, metric, numpy_version)
            /\ pc' = "save_open"
            /\ UNCHANGED outcome
    /\ UNCHANGED <<engineVars, argVars, parseVars, fs, fs0, input_path,
                   output_path, out_path, open_files, log>>

\* out.save(output_path, format="PNG"): the file is opened for writing,
\* which creates or truncates it; the empty path cannot be opened
OpenOutput ==
    /\ pc = "save_open"
    /\ log' = Append(log, <<"open", out_path, "w">>)
    /\ IF out_path = <<>>
       THEN /\ Raise("FileNotFoundError")
            /\ UNCHANGED <<fs, open_files>>
       ELSE /\ fs' = WriteFile(fs, out_path, Truncated)
            /\ open_files' = open_files \cup {<<out_path, "w">>}
            /\ pc' = "save_write"
            /\ UNCHANGED outcome
    /\ UNCHANGED <<engineVars, argVars, arr, parseVars, fs0, input_path,
                   output_path, out_path>>

\* the encoded RGBA image is written
WriteOutput ==
    /\ pc = "save_write"
    /\ fs' = WriteFile(fs, out_path, arr)
    /\ log' = Append(log, <<"write", out_path, "w">>)
    /\ pc' = "save_close"
    /\ UNCHANGED <<engineVars, argVars, arr, parseVars, fs0, input_path,
                   output_path, out_path, open_files, outcome>>

\* and the file is closed
CloseOutput ==
    /\ pc = "save_close"
    /\ open_files' = open_files \ {<<out_path, "w">>}
    /\ log' = Append(log, <<"close", out_path, "w">>)
    /\ pc' = "return"
    /\ UNCHANGED <<engineVars, argVars, arr, parseVars, fs, fs0, input_path,
                   output_path, out_path, outcome>>

\* return output_path
Return ==
    /\ pc = "return"
    /\ outcome' = [kind |-> "return", value |-> out_path]
    /\ pc' = "done"
    /\ UNCHANGED <<engineVars, argVars, arr, parseVars, fs, fs0, input_path,
                   output_path, out_path, open_files, log>>

NextFiles ==
    \/ CheckInput
    \/ ResolveOutput
    \/ OpenInput
    \/ DecodeInput
    \/ CloseInput
    \/ RecolorBuffer
    \/ OpenOutput
    \/ WriteOutput
    \/ CloseOutput
    \/ Return

SpecFiles == InitFiles /\ [][NextFiles]_vars

(***************************************************************************)
(* parse_color.  A string is the sequence of the code points of its        *)
(* characters: "#" is 35, "," is 44, "0" is 48.                            *)
(***************************************************************************)
\* the characters str.strip() and str.split() take for whitespace (those
\* str.isspace() is true of): \t \n \x0b \x0c \r, \x1c to \x1f, the space,
\* \x85, \xa0 and the space and line separators beyond
Whitespace ==
    {9, 10, 11, 12, 13, 28, 29, 30, 31, 32, 133, 160, 5760} \cup (8192..8202)
        \cup {8232, 8233, 8239, 8287, 12288}

\* the whitespace int() removes around a number: not \x1c to \x1f
IntWhitespace == Whitespace \ (28..31)

\* the digits 0 of the decimal digits int() accepts (Unicode category Nd,
\* Unicode 14): each is followed by its digits 1 to 9
DigitZeros ==
    {48, 1632, 1776, 1984, 2406, 2534, 2662, 2790, 2918, 3046, 3174, 3302,
     3430, 3558, 3664, 3792, 3872, 4160, 4240, 6112, 6160, 6470, 6608, 6784,
     6800, 6992, 7088, 7232, 7248, 42528, 43216, 43264, 43472, 43504, 43600,
     44016, 65296, 66720, 68912, 69734, 69872, 69942, 70096, 70384, 70736,
     70864, 71248, 71360, 71472, 71904, 72016, 72784, 73040, 73120, 92768,
     92864, 93008, 120782, 120792, 120802, 120812, 120822, 123200, 123632,
     125264, 130032}

IsHexDigit(c) == c \in (48..57) \cup (97..102) \cup (65..70)

HexValue(c) ==
    IF c \in 48..57 THEN c - 48 ELSE IF c \in 97..102 THEN c - 87 ELSE c - 55

IsDigit(c) == \E z \in DigitZeros : c \in z..(z + 9)

DigitValue(c) == c - (CHOOSE z \in DigitZeros : c \in z..(z + 9))

LStrip(s, ws) ==
    IF \A i \in 1..Len(s) : s[i] \in ws THEN <<>>
    ELSE SubSeq(s, CHOOSE i \in 1..Len(s) : s[i] \notin ws /\ \A j \in 1..(i - 1) : s[j] \in ws,
                Len(s))

RStrip(s, ws) ==
    IF \A i \in 1..Len(s) : s[i] \in ws THEN <<>>
    ELSE SubSeq(s, 1,
                CHOOSE i \in 1..Len(s) : s[i] \notin ws /\ \A j \in (i + 1)..Len(s) : s[j] \in ws)

\* str.strip()
Strip(s) == RStrip(LStrip(s, Whitespace), Whitespace)

\* if s.startswith("#"): s = s[1:]
StripHash(s) == IF s # <<>> /\ Head(s) = 35 THEN Tail(s) ELSE s

\* all(c in "0123456789abcdefABCDEF" for c in s) and len(s) == 6
IsHex6(s) == Len(s) = 6 /\ \A i \in 1..Len(s) : IsHexDigit(s[i])

\* int(s[i:i+2], 16)
HexByte(s, i) == 16 * HexValue(s[i]) + HexValue(s[i + 1])

FirstIndex(s, chars) ==
    IF \E i \in 1..Len(s) : s[i] \in chars
    THEN CHOOSE i \in 1..Len(s) : s[i] \in chars /\ \A j \in 1..(i - 1) : s[j] \notin chars
    ELSE Len(s) + 1

\* s.split(","): empty parts are kept
RECURSIVE SplitComma(_)
SplitComma(s) ==
    LET i == FirstIndex(s, {44})
    IN  IF i > Len(s) THEN <<s>>
        ELSE <<SubSeq(s, 1, i - 1)>> \o SplitComma(SubSeq(s, i + 1, Len(s)))

\* s.split(): runs of whitespace separate, empty parts are dropped
RECURSIVE SplitWhitespace(_)
SplitWhitespace(s) ==
    LET t == LStrip(s, Whitespace)
        i == FirstIndex(t, Whitespace)
    IN  IF t = <<>> THEN <<>>
        ELSE <<SubSeq(t, 1, i - 1)>> \o SplitWhitespace(SubSeq(t, i, Len(t)))

\* [p.strip() for p in s.split(",")] if "," in s else s.split()
Parts(s) ==
    IF \E i \in 1..Len(s) : s[i] = 44
    THEN [i \in 1..Len(SplitComma(s)) |-> Strip(SplitComma(s)[i])]
    ELSE SplitWhitespace(s)

RECURSIVE DigitsValue(_)
DigitsValue(ds) ==
    IF ds = <<>> THEN 0
    ELSE 10 * DigitsValue(SubSeq(ds, 1, Len(ds) - 1)) + DigitValue(ds[Len(ds)])

\* int(p): the whitespace around the number is removed; then come an optional
\* sign, + or -, and decimal digits, with single underscores allowed between
\* two digits; and int() refuses a number of more than 4300 digits
\* (sys.int_info.default_max_str_digits), underscores not counted
IntStrip(p) == RStrip(LStrip(p, IntWhitespace), IntWhitespace)

Unsigned(t) == IF t # <<>> /\ Head(t) \in {43, 45} THEN Tail(t) ELSE t

IsInt(p) ==
    LET ds == Unsigned(IntStrip(p))
    IN  /\ ds # <<>>
        /\ \A i \in 1..Len(ds) :
              \/ IsDigit(ds[i])
              \/ /\ ds[i] = 95
                 /\ 1 < i /\ i < Len(ds)
                 /\ IsDigit(ds[i - 1]) /\ IsDigit(ds[i + 1])
        /\ Len(SelectSeq(ds, IsDigit)) <= 4300

\* The value of the digits ds.  Leading zeros apart, more than nine digits
\* make a number beyond the 32-bit integers of the model: it is given as 10^9,
\* which parse_color, comparing it with 0 and 255, treats as it treats the
\* number.
Magnitude(ds) ==
    IF \A i \in 1..Len(ds) : DigitValue(ds[i]) = 0 THEN 0
    ELSE LET first == CHOOSE i \in 1..Len(ds) :
                          DigitValue(ds[i]) # 0 /\ \A j \in 1..(i - 1) : DigitValue(ds[j]) = 0
         IN  IF Len(ds) - first + 1 > 9 THEN 1000000000
             ELSE DigitsValue(SubSeq(ds, first, Len(ds)))

IntValue(p) ==
    LET t == IntStrip(p)
        v == Magnitude(SelectSeq(Unsigned(t), IsDigit))
    IN  IF Head(t) = 45 THEN 0 - v ELSE v

InRange256(v) == ~(v < 0 \/ v > 256)

\* not (v < 0 or v > 255)
InRange(v) == ~(v < 0 \/ v > 255)

FormatMessage == "Color must be in #RRGGBB or 'R,G,B' (0-255) format"
IntegerMessage == "Color components must be integers between 0 and 255"
RangeMessage == "Color components must be in the range 0-255"

Returns(v) == [kind |-> "return", value |-> v]

Raises(msg) == [kind |-> "raise", value |-> msg]

\* parse_color has not been called yet
NotParsed == [kind |-> "pending", value |-> <<>>]

parse_color(str) ==
    LET s == StripHash(Strip(str))
        parts == Parts(s)
    IN  IF IsHex6(s) THEN Returns(<<HexByte(s, 1), HexByte(s, 3), HexByte(s, 5)>>)
        ELSE IF Len(parts) # 3 THEN Raises(FormatMessage)
        ELSE IF \E i \in 1..3 : ~IsInt(parts[i]) THEN Raises(IntegerMessage)
        ELSE IF \E i \in 1..3 : ~InRange(IntValue(parts[i])) THEN Raises(RangeMessage)
        ELSE Returns(<<IntValue(parts[1]), IntValue(parts[2]), IntValue(parts[3])>>)

(***************************************************************************)
(* The strings parse_color is applied to: up to n tokens joined by two     *)
(* alternating separators, with a prefix and a suffix.                     *)
(***************************************************************************)
\* "", "0", "255", "256", "-1", "0F", "1_0" and the Arabic-Indic digit one
ColorTokens ==
    {<<>>, <<48>>, <<50, 53, 53>>, <<50, 53, 54>>, <<45, 49>>, <<48, 70>>, <<49, 95, 48>>,
     <<1633>>}

\* nothing, ",", " ", "\t" and ", "
ColorSeparators == {<<>>, <<44>>, <<32>>, <<9>>, <<44, 32>>}

\* nothing, "\xa0", "#" and " #"
ColorPrefixes == {<<>>, <<160>>, <<35>>, <<32, 35>>}

\* nothing and "\n"
ColorSuffixes == {<<>>, <<10>>}

\* the digit c written n times
LongDigits(c, n) == [i \in 1..n |-> c]

\* strings with long numbers: "11..1,1,1" and "00..0,1,1" with 4300 and with
\* 4301 digits, and "2147483648,0,0"
LongColorStrings ==
    {LongDigits(49, 4300) \o <<44, 49, 44, 49>>, LongDigits(49, 4301) \o <<44, 49, 44, 49>>,
     LongDigits(48, 4300) \o <<44, 49, 44, 49>>, LongDigits(48, 4301) \o <<44, 49, 44, 49>>,
     <<50, 49, 52, 55, 52, 56, 51, 54, 52, 56, 44, 48, 44, 48>>}

RECURSIVE Join(_, _, _)
Join(toks, sepA, sepB) ==
    IF Len(toks) = 1 THEN toks[1]
    ELSE toks[1] \o sepA \o Join(Tail(toks), sepB, sepA)

ColorStrings(n) ==
    {pre \o Join(toks, sepA, sepB) \o suf :
        pre \in ColorPrefixes, suf \in ColorSuffixes,
        sepA \in ColorSeparators, sepB \in ColorSeparators,
        toks \in UNION {[1..k -> ColorTokens] : k \in 1..n}}

InitParse ==
    /\ image = Null /\ arr2 = Null /\ phase = Null /\ arr = Null
    /\ source = Null /\ target = Null /\ tolerance = Null /\ metric = Null
    /\ numpy_version = Null
    /\ fs = Null /\ fs0 = Null /\ input_path = Null /\ output_path = Null
    /\ out_path = Null /\ open_files = Null /\ log = Null /\ pc = Null
    /\ outcome = Null
    /\ color_str \in ColorStrings(MaxTokens) \cup LongColorStrings
    /\ parsed = NotParsed

Parse ==
    /\ parsed = NotParsed
    /\ parsed' = parse_color(color_str)
    /\ UNCHANGED <<engineVars, argVars, arr, fileVars, color_str>>

NextParse == Parse

SpecParse == InitParse /\ [][NextParse]_vars

(***************************************************************************)
(* Properties of the engine.                                               *)
(***************************************************************************)
RGBOf(px) == <<px[1], px[2], px[3]>>

\* closeness as the specification writes it, over the reals, for the
\* tolerance t = (num / den) / 2^exp:
\* sqrt(dR^2 + dG^2 + dB^2) / (sqrt(3) * 255) <= t, and
\* |dR|, |dG|, |dB| <= t * 255; every distance is at most the infinity
RealClose(px, src, tol, m) ==
    LET d == Diff(px, src)
    IN  IF tol.den = 0 THEN tol.num > 0
        ELSE IF m = "euclidean"
        THEN /\ tol.den > 0 /\ tol.num >= 0
             /\ BigLeq(BigShiftUp(BigMul(BigOf(SumSq(d)), BigMul(BigOf(tol.den), BigOf(tol.den))),
                                  2 * tol.exp),
                       BigShiftUp(BigMulSmall(BigMul(BigOf(tol.num), BigOf(tol.num)), 3 * 255 * 255),
                                  0 - 2 * tol.exp))
        ELSE /\ tol.den > 0 /\ tol.num >= 0
             /\ \A c \in 1..3 :
                   BigLeq(BigShiftUp(BigMulSmall(BigOf(tol.den), Abs(d[c])), tol.exp),
                          BigShiftUp(BigMulSmall(BigOf(tol.num), 255), 0 - tol.exp))

Converted == phase = "converted"

\* C1: the output has the input's dimensions and alpha, and a pixel's RGB is
\* the target when its alpha is positive and it is close to the source under
\* the metric as written over the reals, and the input's RGB otherwise.
C1_RecolorContract ==
    Converted =>
        LET a == Load(image)
        IN  /\ arr.width = image.width
            /\ arr.height = image.height
            /\ Len(arr.pixels) = Len(image.pixels)
            /\ \A i \in 1..Len(a.pixels) :
                  /\ arr.pixels[i][4] = a.pixels[i][4]
                  /\ RGBOf(arr.pixels[i]) =
                        IF a.pixels[i][4] > 0 /\ RealClose(a.pixels[i], source, tolerance, metric)
                        THEN target
                        ELSE RGBOf(a.pixels[i])

\* C2: a pixel whose alpha is 0 comes out as it went in, at every tolerance,
\* under both metrics, even when its RGB is the source colour.
C2_TransparentUntouched ==
    Converted =>
        \A i \in 1..Len(arr.pixels) :
            Load(image).pixels[i][4] = 0 => arr.pixels[i] = Load(image).pixels[i]

C2_Witness ==
    /\ Converted
    /\ tolerance = Tol(3, 2)
    /\ \E i \in 1..Len(arr.pixels) :
          /\ image.pixels[i] = <<source[1], source[2], source[3], 0>>
          /\ arr.pixels[i] = image.pixels[i]
    /\ \E i \in 1..Len(arr.pixels) : arr.pixels[i] # Load(image).pixels[i]

\* C3: when the target differs from the source and is farther than the
\* tolerance from it, converting the output again changes no pixel.
C3_Idempotent ==
    (/\ phase = "reconverted"
     /\ source # target
     /\ ~Close(target, source, tolerance, metric, numpy_version)) => arr2 = arr

C3_Witness ==
    /\ phase = "reconverted"
    /\ source # target
    /\ ~Close(target, source, tolerance, metric, numpy_version)
    /\ arr # Load(image)
    /\ arr2 = arr

\* the tolerances above a tolerance that float converts
Larger == [t \in Tolerances |-> {t2 \in Tolerances : TolLess(t, t2) /\ ~Overflows(t2)}]

\* C4: a pixel in the mask at the tolerance of the call is in the mask at
\* every larger tolerance that float converts, under either metric.
C4_Monotone ==
    Converted =>
        LET mask1 == Mask(Load(image), source, tolerance, metric, numpy_version)
        IN  \A t2 \in Larger[tolerance] :
                LET mask2 == Mask(Load(image), source, t2, metric, numpy_version)
                IN  \A i \in 1..Len(arr.pixels) : mask1[i] => mask2[i]

C4_Witness ==
    /\ Converted
    /\ \E t2 \in Larger[tolerance] :
          /\ \E i \in 1..Len(arr.pixels) :
                /\ Mask(Load(image), source, tolerance, metric, numpy_version)[i]
                /\ Mask(Load(image), source, t2, metric, numpy_version)[i]
          /\ \E i \in 1..Len(arr.pixels) :
                /\ ~Mask(Load(image), source, tolerance, metric, numpy_version)[i]
                /\ Mask(Load(image), source, t2, metric, numpy_version)[i]

\* C5: at tolerance 1.0 every pixel of positive alpha takes the target
\* colour, under either metric and for every source colour.
C5_ToleranceOneSelectsAll ==
    (Converted /\ tolerance = Tol(1, 1)) =>
        \A i \in 1..Len(arr.pixels) :
            Load(image).pixels[i][4] > 0 =>
                arr.pixels[i] = <<target[1], target[2], target[3], Load(image).pixels[i][4]>>

C5_Witness ==
    /\ Converted
    /\ tolerance = Tol(1, 1)
    /\ metric = "euclidean"
    /\ source = <<0, 0, 0>>
    /\ target = DEFAULT_TARGET
    /\ \E i \in 1..Len(arr.pixels) :
          /\ image.pixels[i] = <<255, 255, 255, 255>>
          /\ arr.pixels[i] = <<6, 145, 15, 255>>

Scenario ==
    /\ Converted
    /\ image = ScenarioImage
    /\ source = <<0, 0, 0>>
    /\ target = <<6, 145, 15>>
    /\ tolerance = Tol(3, 10)
    /\ metric = "euclidean"

ScenarioOutput ==
    <<(<<6, 145, 15, 255>>), (<<255, 255, 255, 255>>), (<<0, 0, 0, 0>>), (<<6, 145, 15, 255>>)>>

\* C6 as stated: the scenario's output, with pixel 1 and pixel 4 mask matches
\* and pixel 3 unmatched.
C6_ScenarioAsStated ==
    Scenario =>
        /\ arr.pixels = ScenarioOutput
        /\ Mask(image, source, tolerance, metric, numpy_version)[1]
        /\ ~Mask(image, source, tolerance, metric, numpy_version)[3]
        /\ Mask(image, source, tolerance, metric, numpy_version)[4]

\* C6 as amended: the scenario's output is the stated one; pixel 1 is the only
\* mask match; pixel 3 is close to the source and unmatched because its alpha
\* is 0; pixel 4 is not close to the source and keeps its value unmatched.
C6_Scenario ==
    Scenario =>
        /\ arr.pixels = ScenarioOutput
        /\ arr.width = 2 /\ arr.height = 2
        /\ Mask(image, source, tolerance, metric, numpy_version) = <<TRUE, FALSE, FALSE, FALSE>>
        /\ Close(image.pixels[3], source, tolerance, metric, numpy_version)
        /\ ~Close(image.pixels[4], source, tolerance, metric, numpy_version)

C6_Witness == Scenario /\ arr.pixels = ScenarioOutput


(***************************************************************************)
(* Properties of the file handling.                                        *)
(***************************************************************************)
Done == pc = "done"

Failed == pc = "raised"

LogIndex(entry) ==
    IF \E i \in 1..Len(log) : log[i] = entry
    THEN CHOOSE i \in 1..Len(log) : log[i] = entry /\ \A j \in 1..(i - 1) : log[j] # entry
    ELSE 0

\* the dot that starts the extension of p: it is followed by no dot and no
\* separator, and its component has a character other than a dot before it
ExtensionAt(p, k) ==
    /\ p[k] = "."
    /\ \A j \in (k + 1)..Len(p) : p[j] \notin {".", "/"}
    /\ \E j \in 1..(k - 1) : p[j] \notin {".", "/"} /\ \A i \in j..k : p[i] # "/"

RootOf(p) ==
    IF \E k \in 1..Len(p) : ExtensionAt(p, k)
    THEN SubSeq(p, 1, (CHOOSE k \in 1..Len(p) : ExtensionAt(p, k)) - 1)
    ELSE p

ExtensionOf(p) == SubSeq(p, Len(RootOf(p)) + 1, Len(p))

\* C7 as stated: with no output path given the call writes to and returns the
\* input path with _converted inserted before the extension, the extension
\* being the input's own.
C7_DefaultKeepsExtension ==
    (Done /\ output_path = None) =>
        /\ outcome = [kind |-> "return",
                      value |-> RootOf(input_path) \o <<"_converted">> \o ExtensionOf(input_path)]
        /\ outcome.value \in DOMAIN fs

\* C7 as amended: with no output path given the call writes to and returns
\* the input path with its extension, if it has one, replaced by
\* _converted.png, whatever the input's extension.
C7_DefaultOutputPath ==
    (Done /\ output_path = None) =>
        /\ outcome = [kind |-> "return",
                      value |-> RootOf(input_path) \o <<"_converted", ".", "png">>]
        /\ outcome.value \in DOMAIN fs
        /\ fs[outcome.value] = arr
        /\ \A q \in DOMAIN fs : q # outcome.value => (q \in DOMAIN fs0 /\ fs[q] = fs0[q])

C7_Witness ==
    /\ Done
    /\ output_path = None
    /\ input_path = <<"a", ".", "a">>
    /\ outcome.value = <<"a", "_converted", ".", "png">>
    /\ outcome.value \in DOMAIN fs

InputExists == input_path \in DOMAIN fs0

WillFail == ~InputExists \/ metric \notin Metrics

\* C9: a call that fails with FileNotFoundError because there is no input
\* file, or with ValueError because the metric is unsupported, never opens or
\* writes the output: the files stay as they were, and nothing is opened for
\* writing; FileNotFoundError comes before the input is opened.
C9_FailBeforeOutput ==
    /\ WillFail =>
          /\ fs = fs0
          /\ \A h \in open_files : h[2] = "r"
          /\ \A i \in 1..Len(log) : log[i][3] = "r"
          /\ pc \notin {"save_open", "save_write", "save_close", "return", "done"}
    /\ (Failed /\ WillFail) =>
          /\ outcome = [kind |-> "raise",
                        value |-> IF InputExists THEN "ValueError" ELSE "FileNotFoundError"]
          /\ ~InputExists => log = <<>>

C9_Witness ==
    /\ Failed
    /\ outcome.value = "ValueError"
    /\ out_path \in DOMAIN fs
    /\ out_path # input_path
    /\ fs[out_path] = OldOutput

\* C10: the input is opened, read and closed before the output is opened; no
\* file is open while the mask is computed and applied; and the file written
\* holds the conversion of the whole original input, also when the output
\* path is the input path.
C10_HandlesScoped ==
    /\ Cardinality(open_files) <= 1
    /\ pc = "recolor" => open_files = {}
    /\ \A p \in DOMAIN fs : <<p, "w">> \in open_files =>
          /\ LogIndex(<<"open", input_path, "r">>) = 1
          /\ LogIndex(<<"read", input_path, "r">>) = 2
          /\ LogIndex(<<"close", input_path, "r">>) = 3
          /\ LogIndex(<<"open", p, "w">>) = 4
    /\ Done =>
          /\ open_files = {}
          /\ fs[out_path] = Recolor(Load(fs0[input_path]), source, target, tolerance,
                                 metric, numpy_version)

C10_Witness ==
    /\ Done
    /\ out_path = input_path
    /\ fs[out_path] # fs0[input_path]
    /\ fs0[input_path].mode = "RGB"
    /\ log[Len(log)] = <<"close", input_path, "w">>


(***************************************************************************)
(* Properties of parse_color.                                              *)
(***************************************************************************)
Parsed == parsed # NotParsed

\* the two failures of the contract, by the message raised
InvalidColorFormat == Raises(FormatMessage)

InvalidColorRange == {Raises(IntegerMessage), Raises(RangeMessage)}

\* what the contract gives for the string t once the prefix is dealt with;
\* a token is taken without the whitespace around it, and is an integer when
\* int() reads it as one
Contract(t, result) ==
    IF Len(t) = 6 /\ \A i \in 1..6 : IsHexDigit(t[i])
    THEN result = Returns(<<16 * HexValue(t[1]) + HexValue(t[2]),
                            16 * HexValue(t[3]) + HexValue(t[4]),
                            16 * HexValue(t[5]) + HexValue(t[6])>>)
    ELSE LET split == IF \E i \in 1..Len(t) : t[i] = 44 THEN SplitComma(t)
                      ELSE SplitWhitespace(t)
             toks == [i \in 1..Len(split) |-> Strip(split[i])]
         IN  IF Len(toks) # 3 THEN result = InvalidColorFormat
             ELSE IF \E i \in 1..3 : ~IsInt(toks[i]) THEN result \in InvalidColorRange
             ELSE IF \E i \in 1..3 : IntValue(toks[i]) < 0 \/ IntValue(toks[i]) > 255
                  THEN result \in InvalidColorRange
             ELSE result = Returns(<<IntValue(toks[1]), IntValue(toks[2]), IntValue(toks[3])>>)

ColorInRange(result) ==
    result.kind = "return" => \A c \in 1..3 : result.value[c] \in 0..255

\* C8 as stated: the contract applies to the string with an optional leading
\* # removed, and nothing else removed.
C8_ParseAsStated ==
    Parsed =>
        /\ Contract(IF color_str # <<>> /\ color_str[1] = 35 THEN Tail(color_str)
                    ELSE color_str, parsed)
        /\ ColorInRange(parsed)

\* C8 as amended: the contract applies to the string with its surrounding
\* whitespace removed first and then an optional leading # removed; a
\* returned colour has every component in 0..255.
C8_ParseContract ==
    Parsed =>
        /\ LET t == Strip(color_str)
           IN  Contract(IF t # <<>> /\ t[1] = 35 THEN Tail(t) ELSE t, parsed)
        /\ ColorInRange(parsed)

\* " #2550F0\n" is read as the hexadecimal colour 25 50 F0
C8_Witness ==
    /\ color_str = <<32, 35, 50, 53, 53, 48, 70, 48, 10>>
    /\ parsed = Returns(<<37, 80, 240>>)

=============================================================================
